---- MODULE Spec2Model ----
(***************************************************************************)
(* The JNI bridge of sarpel/pc-control (whisper_jni.cpp) over the engine   *)
(* interface of whisper.h, linked either against the stub engine of        *)
(* whisper_dummy.c or against another engine with the same declarations.   *)
(*                                                                         *)
(* One native call is in progress at a time (pc # "idle"); each statement  *)
(* of a handler that touches the JNI environment or the engine is one      *)
(* step.  The values an engine function or malloc returns are inputs.     *)
(* JNIEnv acquisitions (GetStringUTFChars, GetFloatArrayElements,          *)
(* NewStringUTF) are taken to succeed.                                     *)
(***************************************************************************)
EXTENDS Integers, Sequences, FiniteSets, TLC

(* ------------------------------ bounds -------------------------------- *)

\* Width of jlong in the model, a scaled stand-in for the 64 bits of JNI.
JlongBits == 4
\* Contexts created in one run.
MaxInits == 2
\* Largest segment count an engine other than the stub reports.
MaxSegs == 2

(* --------------------------- program values --------------------------- *)

\* nullptr, whisper_jni.cpp:29,44,57
NULL == 0
\* whisper_full_default_params(0): 0 = WHISPER_SAMPLING_GREEDY
GREEDY == 0
\* whisper_dummy.c:32
Placeholder == " [Dummy Transcription] "
\* whisper_dummy.c:28
StubSegments == 1
\* whisper_dummy.c:24
StubStatus == 0

Engines == {"stub", "linked"}
\* Pointer width and pointer-to-integer extension of the build: pointers as
\* wide as jlong, or narrower with sign or zero extension.
Abis == {"wide", "narrow_sext", "narrow_zext"}
Paths == {"", "model.bin"}
SegTexts == {"a", "bc"}
Statuses == {0, 1, -1}
\* Sample arrays the caller passes: the empty one and [0.0, 0.0, 0.0].
SampleArrays == {<<>>, <<0, 0, 0>>}

RECURSIVE Pow2(_)
Pow2(n) == IF n = 0 THEN 1 ELSE 2 * Pow2(n - 1)

PtrBits(a) == IF a = "wide" THEN JlongBits ELSE JlongBits - 1

Jlongs == (0 - Pow2(JlongBits - 1)) .. (Pow2(JlongBits - 1) - 1)

\* Addresses an allocation can return: a low one, the one with only the top
\* bit set, and the all-ones one.
HeapAddrs(a) == {1, Pow2(PtrBits(a) - 1), Pow2(PtrBits(a)) - 1}

(* ------------------------------ casts --------------------------------- *)

\* A cast that goes through a signed integer one bit narrower than a pointer.
PtrToJlongNarrowed(a, p) == p % Pow2(PtrBits(a) - 1)

\* (jlong) ctx
PtrToJlong(a, p) ==
    IF a = "narrow_zext" THEN p
    ELSE IF p >= Pow2(PtrBits(a) - 1) THEN p - Pow2(PtrBits(a)) ELSE p

\* A cast that takes the magnitude of the handle.
JlongToPtrAbs(a, h) == (IF h < 0 THEN 0 - h ELSE h) % Pow2(PtrBits(a))

\* (struct whisper_context *) contextPtr
JlongToPtr(a, h) == h % Pow2(PtrBits(a))

\* Handles the caller passes: zero, every handle init can return, a value
\* that was never a context, the most negative jlong (whose low bits are
\* all zero on a build with narrow pointers) and its successor (whose low
\* bits are those of address 1 on such a build).
Handles(a) ==
    {0, 2, 0 - Pow2(JlongBits - 1), 1 - Pow2(JlongBits - 1)}
        \cup {PtrToJlong(a, p) : p \in HeapAddrs(a)}

(* ------------------------- bridge decisions --------------------------- *)

\* A null test that is never true.
NeverNull(p) == FALSE

\* ctx == nullptr
IsNull(p) == p = NULL

\* A failure test that sees only negative statuses.
NegativeOnly(s) == s < 0

\* whisper_full(...) != 0
InferFailed(s) == s # 0

\* An accumulation that prepends.
Prepend(r, t) == t \o r

\* result += text
Accumulate(r, t) == r \o t

\* A loop test that runs one segment short.
LoopOneShort(k, n) == k < n - 1

\* i < n_segments
LoopContinues(k, n) == k < n

\* A failure path that returns without releasing the array.
FailureExitLeaks == <<"NewStringUTF">>

\* JNI calls of the failure exit, whisper_jni.cpp:72-73
FailureExit == <<"ReleaseFloatArrayElements", "NewStringUTF">>

(* ------------------------------ engine -------------------------------- *)

\* whisper_full: the stub reports success; another engine any status.
FullResults(e) == IF e = "stub" THEN {StubStatus} ELSE Statuses

\* whisper_full_n_segments: the stub reports one segment.
SegmentCounts(e) == IF e = "stub" THEN {StubSegments} ELSE -1..MaxSegs

\* whisper_full_get_segment_text: the stub returns the placeholder.
SegmentTexts(e) == IF e = "stub" THEN {Placeholder} ELSE SegTexts

\* Whether an engine function reads or writes *ctx: the stub never does.
Dereferences(e) == e # "stub"

(* ------------------------------- state -------------------------------- *)

VARIABLES
    abi,        \* the build's pointer model
    engine,     \* the engine the bridge is linked against
    created,    \* number of contexts created so far; they are numbered 1..created
    ctxAt,      \* address -> number of the context last created there, 0 if none
    destroys,   \* context number -> whisper_free calls it has received
    ub,         \* undefined behaviour has been executed and the call ran on
    owned,      \* <<handle, context>>: handles init returned to the caller and the
                \* caller has not freed since, each with the context it stands for
    target,     \* the context the caller's handle stands for in this call, 0 if none
    misuse,     \* the caller has passed a non-zero handle it does not own
    pc,         \* position in the native call in progress, "idle" between calls
    op,         \* the native call in progress or last returned
    argP,       \* modelPath
    argH,       \* contextPtr
    argS,       \* audioData
    ctx,        \* local ctx
    len,        \* local len
    status,     \* value of whisper_full
    nseg,       \* local n_segments
    i,          \* loop index
    result,     \* local result
    retH,       \* jlong returned by init
    retS,       \* jstring returned by fullTranscribe
    calls,      \* engine calls of this native call, in order
    jni,        \* JNIEnv calls of this native call, in order
    strViews,   \* string views acquired and not released
    arrPins,    \* array pins acquired and not released
    prevTr      \* history, kept for the stub engine: one earlier transcription of
                \* a handle the caller still owns (any one of them)

heapVars == <<created, ctxAt, destroys>>
callerVars == <<owned, target, misuse>>
argVars == <<op, argP, argH, argS>>
localVars == <<ctx, len, status, nseg, i, result>>
retVars == <<retH, retS>>
viewVars == <<strViews, arrPins>>
vars == <<abi, engine, created, ctxAt, destroys, ub, owned, target, misuse, pc, op,
          argP, argH, argS, ctx, len, status, nseg, i, result, retH, retS,
          calls, jni, strViews, arrPins, prevTr>>

NoTr == [valid |-> FALSE, h |-> 0, s |-> <<>>, ret |-> "", other |-> "none"]

\* The remembered transcription after the caller starts call o on handle h:
\* forgotten when its handle is freed; a call on another owned handle is noted.
Remembered(o, h) ==
    IF ~prevTr.valid \/ (o = "free" /\ prevTr.h = h) THEN NoTr
    ELSE IF h # prevTr.h /\ \E x \in owned : x[1] = h
         THEN [prevTr EXCEPT !.other = o]
         ELSE prevTr

\* The context the caller's handle h stands for, 0 if the caller does not own h.
Owner(h) == IF \E x \in owned : x[1] = h
            THEN (CHOOSE x \in owned : x[1] = h)[2]
            ELSE 0

\* The context a pointer designates: the one last created at that address.
CtxOf(p) == IF p \in DOMAIN ctxAt THEN ctxAt[p] ELSE 0

\* The pointer designates a context that has not been destroyed.
LiveAt(p) == CtxOf(p) # 0 /\ destroys[CtxOf(p)] = 0

\* An engine call: function, context argument, integer argument, integer
\* result, string argument or result, and whether the context was live.
Call(fn, p, arg, r, text) ==
    [fn |-> fn, ctx |-> p, arg |-> arg, ret |-> r, text |-> text,
     live |-> LiveAt(p)]

\* Outcomes of a step: defined, or undefined behaviour that aborts the
\* process or lets it run on.
Outcomes(hazard) == IF hazard THEN {"abort", "continue"} ELSE {"ok"}
PcAfter(o, normal) == IF o = "abort" THEN "crashed" ELSE normal
UbAfter(o) == ub \/ o = "continue"

Count(seq, x) == Cardinality({k \in 1..Len(seq) : seq[k] = x})

Init ==
    /\ abi \in Abis
    /\ engine \in Engines
    /\ created = 0
    /\ ctxAt = [a \in HeapAddrs(abi) |-> 0]
    /\ destroys = [c \in 1..MaxInits |-> 0]
    /\ ub = FALSE
    /\ owned = {}
    /\ target = 0
    /\ misuse = FALSE
    /\ pc = "idle"
    /\ op = "none"
    /\ argP = ""
    /\ argH = 0
    /\ argS = <<>>
    /\ ctx = NULL
    /\ len = 0
    /\ status = 0
    /\ nseg = 0
    /\ i = 0
    /\ result = ""
    /\ retH = 0
    /\ retS = ""
    /\ calls = <<>>
    /\ jni = <<>>
    /\ strViews = 0
    /\ arrPins = 0
    /\ prevTr = NoTr

\* Entry of a native call: arguments bound, locals and logs fresh.  What a
\* process does after undefined behaviour is not determined by the code: it
\* is followed to the return of the call in which it happened, not beyond.
Enter(o, path, h, s, first) ==
    /\ pc = "idle"
    /\ ~ub
    /\ op' = o
    /\ argP' = path
    /\ argH' = h
    /\ argS' = s
    /\ ctx' = NULL
    /\ len' = 0
    /\ status' = 0
    /\ nseg' = 0
    /\ i' = 0
    /\ result' = ""
    /\ retH' = 0
    /\ retS' = ""
    /\ calls' = <<>>
    /\ jni' = <<>>
    /\ pc' = first
    /\ UNCHANGED <<abi, engine, heapVars, ub, viewVars>>

(* ------------------------------- init --------------------------------- *)

CallInit(path) ==
    /\ created < MaxInits
    /\ Enter("init", path, 0, <<>>, "init_get")
    /\ target' = 0
    /\ UNCHANGED <<owned, misuse, prevTr>>

\* const char *model_path_str = env->GetStringUTFChars(modelPath, nullptr);
InitGetChars ==
    /\ pc = "init_get"
    /\ strViews' = strViews + 1
    /\ jni' = Append(jni, "GetStringUTFChars")
    /\ pc' = "init_create"
    /\ UNCHANGED <<abi, engine, heapVars, ub, callerVars, argVars, localVars,
                   retVars, calls, arrPins, prevTr>>

\* Addresses malloc can return: any address holding no live block (a freed
\* address can be handed out again).
Allocatable == {a \in HeapAddrs(abi) : ~LiveAt(a)}

\* struct whisper_context *ctx = whisper_init_from_file(model_path_str);
InitCreate ==
    /\ pc = "init_create"
    /\ \E p \in {NULL} \cup Allocatable :
        /\ ctx' = p
        /\ calls' = Append(calls, [Call("whisper_init_from_file", NULL, 0, p, argP)
                                    EXCEPT !.live = TRUE])
        /\ IF p = NULL
           THEN UNCHANGED heapVars
           ELSE /\ created' = created + 1
                /\ ctxAt' = [ctxAt EXCEPT ![p] = created + 1]
                /\ UNCHANGED destroys
    /\ pc' = "init_release"
    /\ UNCHANGED <<abi, engine, ub, callerVars, argVars, len, status, nseg, i,
                   result, retVars, jni, viewVars, prevTr>>

\* env->ReleaseStringUTFChars(modelPath, model_path_str);
InitReleaseChars ==
    /\ pc = "init_release"
    /\ strViews' = strViews - 1
    /\ jni' = Append(jni, "ReleaseStringUTFChars")
    /\ pc' = "init_ret"
    /\ UNCHANGED <<abi, engine, heapVars, ub, callerVars, argVars, localVars,
                   retVars, calls, arrPins, prevTr>>

\* if (ctx == nullptr) return 0; return (jlong) ctx;
InitReturn ==
    /\ pc = "init_ret"
    /\ retH' = IF IsNull(ctx) THEN 0 ELSE PtrToJlong(abi, ctx)
    /\ owned' = IF retH' = 0 THEN owned ELSE owned \cup {<<retH', CtxOf(ctx)>>}
    /\ pc' = "idle"
    /\ UNCHANGED <<abi, engine, heapVars, ub, target, misuse, argVars, localVars, retS,
                   calls, jni, viewVars, prevTr>>

(* ------------------------------- free --------------------------------- *)

CallFree(h) ==
    /\ Enter("free", "", h, <<>>, "free_cast")
    /\ target' = Owner(h)
    /\ misuse' = (misuse \/ (h # 0 /\ Owner(h) = 0))
    /\ owned' = {x \in owned : x[1] # h}
    /\ prevTr' = Remembered("free", h)

\* struct whisper_context *ctx = (struct whisper_context *) contextPtr;
FreeCast ==
    /\ pc = "free_cast"
    /\ ctx' = JlongToPtr(abi, argH)
    /\ pc' = "free_test"
    /\ UNCHANGED <<abi, engine, heapVars, ub, callerVars, argVars, len, status,
                   nseg, i, result, retVars, calls, jni, viewVars, prevTr>>

\* if (ctx != nullptr) is false: return
FreeSkip ==
    /\ pc = "free_test"
    /\ IsNull(ctx)
    /\ pc' = "idle"
    /\ UNCHANGED <<abi, engine, heapVars, ub, callerVars, argVars, localVars,
                   retVars, calls, jni, viewVars, prevTr>>

\* whisper_free(ctx): free() of a block that is not live is undefined.
FreeDestroy ==
    /\ pc = "free_test"
    /\ ~IsNull(ctx)
    /\ calls' = Append(calls, Call("whisper_free", ctx, 0, 0, ""))
    /\ destroys' = IF CtxOf(ctx) = 0 THEN destroys
                   ELSE [destroys EXCEPT ![CtxOf(ctx)] = @ + 1]
    /\ \E o \in Outcomes(~LiveAt(ctx)) :
        /\ pc' = PcAfter(o, "idle")
        /\ ub' = UbAfter(o)
    /\ UNCHANGED <<abi, engine, created, ctxAt, callerVars, argVars, localVars,
                   retVars, jni, viewVars, prevTr>>

(* ---------------------------- fullTranscribe --------------------------- *)

CallTranscribe(h, s) ==
    /\ Enter("transcribe", "", h, s, "tr_cast")
    /\ target' = Owner(h)
    /\ misuse' = (misuse \/ (h # 0 /\ Owner(h) = 0))
    /\ prevTr' = Remembered("transcribe", h)
    /\ UNCHANGED owned

\* struct whisper_context *ctx = (struct whisper_context *) contextPtr;
TrCast ==
    /\ pc = "tr_cast"
    /\ ctx' = JlongToPtr(abi, argH)
    /\ pc' = "tr_test"
    /\ UNCHANGED <<abi, engine, heapVars, ub, callerVars, argVars, len, status,
                   nseg, i, result, retVars, calls, jni, viewVars, prevTr>>

\* The call returns text.
Returned(text) ==
    /\ retS' = text
    /\ pc' = "idle"
    /\ \/ UNCHANGED prevTr
       \/ /\ engine = "stub"
          /\ target # 0
          /\ prevTr' = [valid |-> TRUE, h |-> argH, s |-> argS, ret |-> text,
                        other |-> "none"]

\* if (ctx == nullptr) return env->NewStringUTF("");
TrNoContext ==
    /\ pc = "tr_test"
    /\ IsNull(ctx)
    /\ jni' = Append(jni, "NewStringUTF")
    /\ Returned("")
    /\ UNCHANGED <<abi, engine, heapVars, ub, callerVars, argVars, localVars,
                   retH, calls, viewVars>>

\* jsize len = env->GetArrayLength(audioData);
\* jfloat *samples = env->GetFloatArrayElements(audioData, nullptr);
TrPin ==
    /\ pc = "tr_test"
    /\ ~IsNull(ctx)
    /\ len' = Len(argS)
    /\ arrPins' = arrPins + 1
    /\ jni' = jni \o <<"GetArrayLength", "GetFloatArrayElements">>
    /\ pc' = "tr_params"
    /\ UNCHANGED <<abi, engine, heapVars, ub, callerVars, argVars, ctx, status,
                   nseg, i, result, retVars, calls, strViews, prevTr>>

\* struct whisper_full_params params = whisper_full_default_params(0);
TrParams ==
    /\ pc = "tr_params"
    /\ calls' = Append(calls, [Call("whisper_full_default_params", NULL, GREEDY, 0, "")
                                EXCEPT !.live = TRUE])
    /\ pc' = "tr_full"
    /\ UNCHANGED <<abi, engine, heapVars, ub, callerVars, argVars, localVars,
                   retVars, jni, viewVars, prevTr>>

\* An engine function applied to ctx: undefined if it dereferences a context
\* that is not live.
Hazard(p) == Dereferences(engine) /\ ~LiveAt(p)

\* whisper_full(ctx, params, samples, len)
TrFull ==
    /\ pc = "tr_full"
    /\ \E st \in FullResults(engine), o \in Outcomes(Hazard(ctx)) :
        /\ status' = st
        /\ calls' = Append(calls, Call("whisper_full", ctx, len, st, ""))
        /\ pc' = PcAfter(o, "tr_check")
        /\ ub' = UbAfter(o)
    /\ UNCHANGED <<abi, engine, heapVars, callerVars, argVars, ctx, len, nseg,
                   i, result, retVars, jni, viewVars, prevTr>>

\* if (whisper_full(...) != 0) { release; return env->NewStringUTF(""); }
TrFailed ==
    /\ pc = "tr_check"
    /\ InferFailed(status)
    /\ jni' = jni \o FailureExit
    /\ arrPins' = arrPins - Count(FailureExit, "ReleaseFloatArrayElements")
    /\ Returned("")
    /\ UNCHANGED <<abi, engine, heapVars, ub, callerVars, argVars, localVars,
                   retH, calls, strViews>>

\* std::string result; int n_segments = whisper_full_n_segments(ctx);
TrCount ==
    /\ pc = "tr_check"
    /\ ~InferFailed(status)
    /\ \E n \in SegmentCounts(engine), o \in Outcomes(Hazard(ctx)) :
        /\ nseg' = n
        /\ calls' = Append(calls, Call("whisper_full_n_segments", ctx, 0, n, ""))
        /\ pc' = PcAfter(o, "tr_loop")
        /\ ub' = UbAfter(o)
    /\ result' = ""
    /\ i' = 0
    /\ UNCHANGED <<abi, engine, heapVars, callerVars, argVars, ctx, len, status,
                   retVars, jni, viewVars, prevTr>>

\* for (...; i < n_segments; ++i) { text = whisper_full_get_segment_text(ctx, i);
\*                                  result += text; }
TrSegment ==
    /\ pc = "tr_loop"
    /\ LoopContinues(i, nseg)
    /\ \E t \in SegmentTexts(engine), o \in Outcomes(Hazard(ctx)) :
        /\ calls' = Append(calls, Call("whisper_full_get_segment_text", ctx, i, 0, t))
        /\ result' = Accumulate(result, t)
        /\ pc' = PcAfter(o, "tr_loop")
        /\ ub' = UbAfter(o)
    /\ i' = i + 1
    /\ UNCHANGED <<abi, engine, heapVars, callerVars, argVars, ctx, len, status,
                   nseg, retVars, jni, viewVars, prevTr>>

\* env->ReleaseFloatArrayElements(audioData, samples, 0);
TrRelease ==
    /\ pc = "tr_loop"
    /\ ~LoopContinues(i, nseg)
    /\ arrPins' = arrPins - 1
    /\ jni' = Append(jni, "ReleaseFloatArrayElements")
    /\ pc' = "tr_ret"
    /\ UNCHANGED <<abi, engine, heapVars, ub, callerVars, argVars, localVars,
                   retVars, calls, strViews, prevTr>>

\* return env->NewStringUTF(result.c_str());
TrReturn ==
    /\ pc = "tr_ret"
    /\ jni' = Append(jni, "NewStringUTF")
    /\ Returned(result)
    /\ UNCHANGED <<abi, engine, heapVars, ub, callerVars, argVars, localVars,
                   retH, calls, viewVars>>

(* --------------------------- specification ---------------------------- *)

Next ==
    \/ \E path \in Paths : CallInit(path)
    \/ InitGetChars
    \/ InitCreate
    \/ InitReleaseChars
    \/ InitReturn
    \/ \E h \in Handles(abi) : CallFree(h)
    \/ FreeCast
    \/ FreeSkip
    \/ FreeDestroy
    \/ \E h \in Handles(abi), s \in SampleArrays : CallTranscribe(h, s)
    \/ TrCast
    \/ TrNoContext
    \/ TrPin
    \/ TrParams
    \/ TrFull
    \/ TrFailed
    \/ TrCount
    \/ TrSegment
    \/ TrRelease
    \/ TrReturn

Spec == Init /\ [][Next]_vars

TypeOK ==
    /\ abi \in Abis
    /\ engine \in Engines
    /\ created \in 0..MaxInits
    /\ owned \subseteq Jlongs \X (1..MaxInits)
    /\ target \in 0..MaxInits
    /\ argH \in Jlongs
    /\ retH \in Jlongs
    /\ strViews \in 0..1
    /\ arrPins \in Nat

(* ------------------------------ claims -------------------------------- *)

Done(o) == pc = "idle" /\ op = o

\* Engine calls of this native call made with function fn.
CallsTo(fn) == {k \in 1..Len(calls) : calls[k].fn = fn}

\* Non-null pointers of the build.
Pointers == 1 .. (Pow2(PtrBits(abi)) - 1)

\* C1: a transcribe call with handle 0 makes no engine call and never pins
\* the sample array, at any point of the call, and returns the empty string,
\* whatever the samples and whatever calls came before.
C1_ZeroHandleTranscribe ==
    (op = "transcribe" /\ argH = 0) =>
        /\ calls = <<>>
        /\ Count(jni, "GetFloatArrayElements") = 0
        /\ arrPins = 0
        /\ pc \in {"tr_cast", "tr_test", "idle"}
        /\ pc = "idle" => retS = "" /\ jni = <<"NewStringUTF">>

C1_Witness ==
    /\ Done("transcribe")
    /\ argH = 0
    /\ argS # <<>>
    /\ retS = ""
    /\ owned # {}

\* C2: init passes the caller's locator to create once; it returns 0 exactly
\* when create returned null, and otherwise a non-zero handle from which the
\* bridge's cast recovers the pointer create returned, hence the context
\* just created.
C2_InitHandle ==
    Done("init") =>
        /\ Len(calls) = 1
        /\ calls[1].fn = "whisper_init_from_file"
        /\ calls[1].text = argP
        /\ (calls[1].ret = NULL) <=> (retH = 0)
        /\ calls[1].ret # NULL =>
              /\ JlongToPtr(abi, retH) = calls[1].ret
              /\ CtxOf(JlongToPtr(abi, retH)) = created
              /\ <<retH, created>> \in owned

C2_Witness ==
    /\ Done("init")
    /\ retH < 0
    /\ calls[1].ret # NULL
    /\ created = 2

\* C3 (state part): when free returns, a handle that is the cast of a
\* non-null pointer has caused exactly one engine call, whisper_free on that
\* pointer; if the caller owned the handle (and has passed only zero or
\* handles it owned), that pointer designated the handle's context, which was
\* live and has now been destroyed once; a zero handle has caused no engine
\* call.
C3_FreeCalls ==
    Done("free") =>
        /\ argH = 0 => calls = <<>>
        /\ \A p \in Pointers : PtrToJlong(abi, p) = argH =>
              /\ Len(calls) = 1
              /\ calls[1].fn = "whisper_free"
              /\ calls[1].ctx = p
        /\ (target # 0 /\ ~misuse) =>
              /\ Len(calls) = 1
              /\ calls[1].live
              /\ CtxOf(calls[1].ctx) = target
              /\ destroys[target] = 1

\* C3 (frame part): no step of free(0) changes a context or a handle
\* association.
C3_FreeZeroFrame ==
    (op' = "free" /\ argH' = 0) => UNCHANGED <<heapVars, owned, strViews, arrPins>>

\* C3: free(h) with h derived from a context calls destroy exactly once, on
\* that context; free(0) calls nothing and changes nothing.
C3_Free == []C3_FreeCalls /\ [][C3_FreeZeroFrame]_vars

C3_Witness ==
    /\ Done("free")
    /\ target = 1
    /\ argH < 0
    /\ destroys[1] = 1
    /\ created = 2
    /\ destroys[2] = 0

\* Context c exists but is between create and init's return, or between the
\* caller's free and the destroy it causes.
InHand(c) ==
    \/ op = "init" /\ pc \in {"init_release", "init_ret"} /\ ctx # NULL /\ c = created
    \/ op = "free" /\ pc \in {"free_cast", "free_test"} /\ c = target

\* No context has been destroyed twice; every live context the caller has been
\* handed is owned through exactly one handle, from which the bridge's cast
\* recovers it; no destroyed context is still owned.
ExclusiveOwnership ==
    /\ \A c \in 1..MaxInits : destroys[c] <= 1
    /\ \A c \in 1..created :
          (destroys[c] = 0 /\ ~InHand(c)) => Cardinality({x \in owned : x[2] = c}) = 1
    /\ \A x \in owned :
          /\ destroys[x[2]] = 0
          /\ CtxOf(JlongToPtr(abi, x[1])) = x[2]
    /\ \A x, y \in owned : x[1] = y[1] => x = y

\* C4 as claimed: over any sequence of init/free/transcribe calls, no
\* context is destroyed a second time and each live context is owned by
\* exactly one handle.
C4_AnySequence == ExclusiveOwnership

\* C4 as amended: the same, over the sequences of calls in which the caller
\* passes only zero or a handle it owns (one init returned and it has not
\* freed since).
C4_DisciplinedCaller == ~misuse => ExclusiveOwnership

C4_Witness ==
    /\ Done("free")
    /\ ~misuse
    /\ created = 2
    /\ destroys[1] = 1
    /\ destroys[2] = 0
    /\ Cardinality(owned) = 1
    /\ ctxAt[1] = 2

\* The caller's handle is one init returned for a context created at pointer
\* p, and the caller does not own it any more.
StaleFor(p) ==
    /\ PtrToJlong(abi, p) = argH
    /\ CtxOf(p) # 0
    /\ target = 0

\* C5: while the caller passes only zero or handles it owns, every engine
\* call is applied to a live context; and a free or transcribe of a freed
\* non-zero handle is not rejected: whisper_free, respectively whisper_full,
\* is called with the pointer of the destroyed context.
C5_NoLivenessRecord ==
    /\ ~misuse => \A k \in 1..Len(calls) : calls[k].live
    /\ \A p \in Pointers :
          (StaleFor(p) /\ pc \in {"idle", "crashed"}) =>
              /\ op = "free" =>
                    /\ Len(calls) = 1
                    /\ calls[1].fn = "whisper_free"
                    /\ calls[1].ctx = p
                    /\ ~calls[1].live
              /\ op = "transcribe" =>
                    \E k \in CallsTo("whisper_full") :
                        calls[k].ctx = p /\ ~calls[k].live

C5_Witness ==
    /\ Done("transcribe")
    /\ StaleFor(ctx)
    /\ destroys[CtxOf(ctx)] = 1
    /\ retS = Placeholder

\* C6: between calls no string view and no array pin is outstanding; init
\* acquires the locator view once and releases it once, whether create
\* returned a context or null; a transcribe that pinned the array released
\* it once, on the failure exit and on the success exit, and one that did
\* not pin it released nothing.
C6_ViewsReleased ==
    /\ strViews \in 0..1
    /\ arrPins \in 0..1
    /\ pc = "idle" => strViews = 0 /\ arrPins = 0
    /\ Done("init") => jni = <<"GetStringUTFChars", "ReleaseStringUTFChars">>
    /\ Done("transcribe") =>
          /\ Count(jni, "ReleaseFloatArrayElements") = Count(jni, "GetFloatArrayElements")
          /\ Count(jni, "GetFloatArrayElements") = IF calls = <<>> THEN 0 ELSE 1
          /\ jni[Len(jni)] = "NewStringUTF"

C6_Witness ==
    /\ Done("transcribe")
    /\ status # 0
    /\ jni = <<"GetArrayLength", "GetFloatArrayElements",
               "ReleaseFloatArrayElements", "NewStringUTF">>
    /\ arrPins = 0

RECURSIVE TextsFrom(_)
\* The texts of the engine calls from the k-th on, joined in call order.
TextsFrom(k) == IF k > Len(calls) THEN "" ELSE calls[k].text \o TextsFrom(k + 1)

\* C7: when transcribe returns for a handle the caller owns and whisper_full
\* reported 0, the engine calls were default_params(greedy), whisper_full,
\* whisper_full_n_segments, then whisper_full_get_segment_text once for each
\* index 0..n-1 in increasing order, all on the pointer the handle casts to
\* (the handle's live context, if the caller has passed only zero or handles
\* it owned), and the result is the texts joined in that order with nothing
\* between them (the empty string when n <= 0).
C7_Concatenation ==
    (Done("transcribe") /\ target # 0 /\ Len(calls) >= 2 /\ calls[2].ret = 0) =>
        /\ calls[1].fn = "whisper_full_default_params"
        /\ calls[1].arg = GREEDY
        /\ calls[2].fn = "whisper_full"
        /\ calls[2].arg = Len(argS)
        /\ Len(calls) >= 3
        /\ calls[3].fn = "whisper_full_n_segments"
        /\ Len(calls) = 3 + (IF calls[3].ret > 0 THEN calls[3].ret ELSE 0)
        /\ \A k \in 4..Len(calls) :
              /\ calls[k].fn = "whisper_full_get_segment_text"
              /\ calls[k].arg = k - 4
        /\ \A k \in 2..Len(calls) :
              /\ PtrToJlong(abi, calls[k].ctx) = argH
              /\ ~misuse => calls[k].live /\ CtxOf(calls[k].ctx) = target
        /\ retS = TextsFrom(4)

C7_Witness ==
    /\ Done("transcribe")
    /\ target # 0
    /\ Len(calls) = 5
    /\ calls[4].text = "a"
    /\ calls[5].text = "bc"
    /\ retS = "abc"

\* C8 (state part): once whisper_full has reported a non-zero status in a
\* transcribe call, that call makes no segment_count and no segment_text
\* call, and it returns the empty string.
C8_FailureCalls ==
    (op = "transcribe" /\ \E k \in CallsTo("whisper_full") : calls[k].ret # 0) =>
        /\ CallsTo("whisper_full_n_segments") = {}
        /\ CallsTo("whisper_full_get_segment_text") = {}
        /\ Len(calls) = 2
        /\ pc \in {"tr_check", "idle", "crashed"}
        /\ pc = "idle" => retS = ""

\* C8 (frame part): the failure exit changes no context and no handle
\* association.
C8_FailureFrame ==
    (op = "transcribe" /\ pc = "tr_check" /\ status # 0) =>
        /\ UNCHANGED <<heapVars, owned, ub>>
        /\ pc' = "idle"

\* C8: a non-zero status of whisper_full makes transcribe return the empty
\* string without reading segments, and changes no handle association.
C8_InferFailure == []C8_FailureCalls /\ [][C8_FailureFrame]_vars

C8_Witness ==
    /\ Done("transcribe")
    /\ target # 0
    /\ status = 1
    /\ retS = ""
    /\ Len(calls) = 2

\* C9 (stub result): with the stub engine, a transcribe of a handle the
\* caller owns returns the placeholder text, read from exactly one segment,
\* whatever the sample array.
C9_StubResult ==
    (engine = "stub" /\ Done("transcribe") /\ target # 0) =>
        /\ retS = Placeholder
        /\ Cardinality(CallsTo("whisper_full_get_segment_text")) = 1
        /\ Cardinality(CallsTo("whisper_full")) = 1

\* C9 (repetition): with the stub engine, a transcribe that returns for a
\* handle and a sample array for which an earlier transcribe returned, the
\* handle not freed in between, returns the string the earlier one returned.
C9_SameAgain ==
    (op = "transcribe" /\ pc # "idle" /\ pc' = "idle"
        /\ prevTr.valid /\ prevTr.h = argH /\ prevTr.s = argS)
      => retS' = prevTr.ret

\* C9: repeated transcribe calls on a live handle with the same samples
\* return the same string, which for the stub engine is the placeholder
\* text of exactly one segment.
C9_Repeatable == []C9_StubResult /\ [][C9_SameAgain]_vars

C9_Witness ==
    /\ op = "transcribe"
    /\ pc = "tr_ret"
    /\ prevTr.valid
    /\ prevTr.h = argH
    /\ prevTr.s = argS
    /\ argS = <<>>
    /\ prevTr.ret = Placeholder
    /\ result = Placeholder

\* C10 (transcribe frame): no step of a transcribe call changes the set of
\* contexts, their liveness or a handle association.
C10_TranscribeFrame ==
    op' = "transcribe" => UNCHANGED <<heapVars, owned>>

\* C10 (free frame): no step of a free of a handle the caller owns changes
\* the context another owned handle designates, or destroys it.
C10_FreeFrame ==
    (op' = "free" /\ target' # 0) =>
        \A x \in owned' :
            /\ destroys'[x[2]] = destroys[x[2]]
            /\ ctxAt'[JlongToPtr(abi, x[1])] = ctxAt[JlongToPtr(abi, x[1])]

\* C10 (result): with the stub engine, after a free or a transcribe of
\* another owned handle, transcribe of a handle returns what it returned
\* before for the same samples.
C10_ResultKept ==
    (op = "transcribe" /\ pc # "idle" /\ pc' = "idle"
        /\ prevTr.valid /\ prevTr.h = argH /\ prevTr.s = argS
        /\ prevTr.other # "none")
      => retS' = prevTr.ret

\* C10: only init and free change the handle-to-context association, and a
\* free or transcribe of one live handle leaves another live handle's
\* context live and its transcribe result unchanged.
C10_Independence ==
    /\ [][C10_TranscribeFrame]_vars
    /\ [][C10_FreeFrame]_vars
    /\ [][C10_ResultKept]_vars

C10_Witness ==
    /\ op = "transcribe"
    /\ pc = "tr_ret"
    /\ prevTr.valid
    /\ prevTr.h = argH
    /\ prevTr.s = argS
    /\ prevTr.other = "free"
    /\ result = prevTr.ret
    /\ target # 0
    /\ \E c \in 1..created : c # target /\ destroys[c] = 1

====
